---------------------------- MODULE Spec2Model ----------------------------
(***************************************************************************)
(* A model of mypy-upgrade: the safe-line resolver and the code/comment    *)
(* splitter (utils.py), the comment editor (editing.py) and the file       *)
(* mutator (__main__.py).                                                  *)
(*                                                                         *)
(* Text is modelled character by character: a Python str is a sequence of  *)
(* one-character strings, so that the regular expressions, the str methods *)
(* and the tokenizer act on it the way they act on the real text.          *)
(*                                                                         *)
(* The four components share no state.  Each has a specification of its    *)
(* own (SpecResolver, SpecEditor, SpecSplitter, SpecMutator) in which the  *)
(* other components stay idle; Spec is their union.                        *)
(***************************************************************************)
EXTENDS Integers, Sequences, FiniteSets, TLC

(***************************************************************************)
(* Bounds of the model.                                                    *)
(***************************************************************************)
\* Largest line number of the file the resolver works on (lines 1..MaxLine).
MaxLine == 3
\* Largest column offset (columns are 0..MaxCol).
MaxCol == 1
\* Largest number of unsilenceable regions handed to the resolver.
MaxRegions == 2
\* Largest number of editing calls made on one comment.
MaxOps == 2
\* Largest number of pieces a line handed to the splitter is made of.
MaxPieces == 5
\* Largest number of errors of one report.
MaxErrors == 3
MaxChars == 5

(***************************************************************************)
(* Program constants.                                                      *)
(***************************************************************************)
\* Python's None (an unknown col_offset, an unset new_line): a value that is
\* no line, no column and not the -1 that find_safe_end_line returns.
None == -2
\* The value find_safe_end_line returns when no safe line exists.
CannotSuppress == -1

VARIABLES
    \* ---- find_safe_end_line (utils.py) ----
    regions,        \* unsilenceable_regions: a sequence of [start, end]
    error,          \* the error of the outermost call: [line_no, col_offset]
    cur,            \* the error of the running activation
    depth,          \* number of recursive calls made so far
    pc,             \* "call" while an activation is pending, "done" after return
    result,         \* the returned line, once pc = "done"
    \* ---- editing.py ----
    comment,        \* the comment text being edited
    error_codes,    \* the list object the caller last passed to add_type_ignore_comment
    op,             \* the last editing call: "none", "add", "format", "remove"
    prevOp,         \* the editing call before it
    before,         \* the comment the last call was given
    arg,            \* the codes the last call was given (as they were at the call)
    nops,           \* number of editing calls made
    \* ---- split_code_and_comment (utils.py) ----
    line,           \* the line handed to split_code_and_comment
    splitPc,        \* "call" before the call, "done" after it
    python_code,    \* first entry of the returned pair
    python_comment, \* second entry of the returned pair
    \* ---- silence_errors, main (__main__.py) ----
    lines,          \* the lines of the module's file on disk
    modules,        \* main's list of modules seen
    silenced,       \* number of errors of the report processed so far
    reported,       \* per line, the error codes of the errors processed so far
    \* ---- find_unsilenceable_regions (utils.py) ----
    stream,         \* the text of the stream handed to find_unsilenceable_regions
    findPc,         \* "call", "tokens", "strings", then "done" or "raised"
    all_lines,      \* the list of tokens
    unsilenceable_regions   \* the list of regions built so far

resolverVars == <<regions, error, cur, depth, pc, result>>
editorVars == <<comment, error_codes, op, prevOp, before, arg, nops>>
splitterVars == <<line, splitPc, python_code, python_comment>>
mutatorVars == <<lines, modules, silenced, reported>>
finderVars == <<stream, findPc, all_lines, unsilenceable_regions>>

vars == <<resolverVars, editorVars, splitterVars, mutatorVars, finderVars>>

(***************************************************************************)
(*                   Python str, as sequences of characters                *)
(***************************************************************************)
\* The lower-case letters in the order of their code points.
Letters ==
    <<"a", "b", "c", "d", "e", "f", "g", "h", "i", "j", "k", "l", "m",
      "n", "o", "p", "q", "r", "s", "t", "u", "v", "w", "x", "y", "z">>

LowerCase == {Letters[i] : i \in 1..Len(Letters)}

\* The code-point order of the characters an error code is made of
\* ("-" precedes every letter).
Ord(c) ==
    IF c = "-" THEN 0
    ELSE CHOOSE i \in 1..Len(Letters) : Letters[i] = c

\* s < t for str: the first differing character decides, a proper prefix
\* is smaller.
RECURSIVE StrLess(_, _)
StrLess(s, t) ==
    IF t = <<>> THEN FALSE
    ELSE IF s = <<>> THEN TRUE
    ELSE IF s[1] = t[1] THEN StrLess(Tail(s), Tail(t))
    ELSE Ord(s[1]) < Ord(t[1])

\* The regular expression class \s.
IsSpace(c) == c \in {" ", "\n", "\t"}

\* The regular expression class [a-z, \-].
IsCodeChar(c) == c \in LowerCase \cup {",", " ", "-"}

\* s[i:].startswith(lit), for a 1-based i.
StartsWithAt(s, i, lit) ==
    /\ i + Len(lit) - 1 <= Len(s)
    /\ SubSeq(s, i, i + Len(lit) - 1) = lit

\* The first position from i on that holds no \s character.
RECURSIVE SkipSpaces(_, _)
SkipSpaces(s, i) ==
    IF i <= Len(s) /\ IsSpace(s[i]) THEN SkipSpaces(s, i + 1) ELSE i

\* The first position from i on that holds no [a-z, \-] character.
RECURSIVE SkipCodeChars(_, _)
SkipCodeChars(s, i) ==
    IF i <= Len(s) /\ IsCodeChar(s[i]) THEN SkipCodeChars(s, i + 1) ELSE i

\* str.replace(old, new) for a non-empty old: every non-overlapping
\* occurrence, from the left.
RECURSIVE ReplaceFrom(_, _, _, _)
ReplaceFrom(s, i, old, new) ==
    IF i > Len(s) THEN <<>>
    ELSE IF StartsWithAt(s, i, old)
         THEN new \o ReplaceFrom(s, i + Len(old), old, new)
    ELSE <<s[i]>> \o ReplaceFrom(s, i + 1, old, new)

Replace(s, old, new) == ReplaceFrom(s, 1, old, new)

\* str.split(sep) for a one-character sep: always at least one entry.
RECURSIVE SplitFrom(_, _, _, _)
SplitFrom(s, i, sep, field) ==
    IF i > Len(s) THEN <<field>>
    ELSE IF s[i] = sep THEN <<field>> \o SplitFrom(s, i + 1, sep, <<>>)
    ELSE SplitFrom(s, i + 1, sep, Append(field, s[i]))

Split(s, sep) == SplitFrom(s, 1, sep, <<>>)

\* sep.join(list).
RECURSIVE Join(_, _)
Join(list, sep) ==
    IF list = <<>> THEN <<>>
    ELSE IF Len(list) = 1 THEN list[1]
    ELSE list[1] \o sep \o Join(Tail(list), sep)

\* str.lstrip(chars).
RECURSIVE LStrip(_, _)
LStrip(s, chars) ==
    IF s # <<>> /\ s[1] \in chars THEN LStrip(Tail(s), chars) ELSE s

\* str.rstrip(): trailing whitespace removed.
RECURSIVE RStrip(_)
RStrip(s) ==
    IF s # <<>> /\ IsSpace(s[Len(s)])
    THEN RStrip(SubSeq(s, 1, Len(s) - 1)) ELSE s

\* str.strip().
Strip(s) == RStrip(LStrip(s, {" ", "\n", "\t"}))

\* str.removesuffix(suffix).
RemoveSuffix(s, suffix) ==
    IF Len(s) >= Len(suffix)
       /\ SubSeq(s, Len(s) - Len(suffix) + 1, Len(s)) = suffix
    THEN SubSeq(s, 1, Len(s) - Len(suffix)) ELSE s

\* str.find(c) for a one-character c, as a 1-based position (0: not found).
Find(s, c) ==
    IF \E i \in 1..Len(s) : s[i] = c
    THEN CHOOSE i \in 1..Len(s) :
            s[i] = c /\ \A j \in 1..(i - 1) : s[j] # c
    ELSE 0

\* sorted(list) for a list of str.
RECURSIVE Insert(_, _)
Insert(sorted, x) ==
    IF sorted = <<>> THEN <<x>>
    ELSE IF StrLess(x, sorted[1]) THEN <<x>> \o sorted
    ELSE <<sorted[1]>> \o Insert(Tail(sorted), x)

RECURSIVE Sorted(_)
Sorted(list) ==
    IF list = <<>> THEN <<>>
    ELSE Insert(Sorted(SubSeq(list, 1, Len(list) - 1)), list[Len(list)])

\* The entries of a list, as a set.
Range(list) == {list[i] : i \in 1..Len(list)}

\* re.search(r"[^#\s]", s): some character is neither "#" nor whitespace.
HasOtherThanHashAndSpace(s) ==
    \E i \in 1..Len(s) : s[i] # "#" /\ ~IsSpace(s[i])

(***************************************************************************)
(*                  editing.py: the regular expressions                    *)
(***************************************************************************)
S_type == <<"t", "y", "p", "e">>
S_ignore == <<"i", "g", "n", "o", "r", "e">>
S_type_ignore == S_type \o <<":", " ">> \o S_ignore

\* type\s*:\s*ignore matched at i: the position after the match, 0 if none.
MatchTypeIgnore(s, i) ==
    IF ~StartsWithAt(s, i, S_type) THEN 0
    ELSE LET j == SkipSpaces(s, i + 4)
         IN IF ~StartsWithAt(s, j, <<":">>) THEN 0
            ELSE LET k == SkipSpaces(s, j + 1)
                 IN IF StartsWithAt(s, k, S_ignore) THEN k + 6 ELSE 0

\* \[[a-z, \-]+\] matched at i: the position after the match, 0 if none.
MatchCodes(s, i) ==
    IF ~StartsWithAt(s, i, <<"[">>) THEN 0
    ELSE LET j == SkipCodeChars(s, i + 1)
         IN IF j > i + 1 /\ StartsWithAt(s, j, <<"]">>) THEN j + 1 ELSE 0

\* The four patterns of editing.py matched at i (re.match at a position):
\* the position after the match, 0 if none.
\*   "old_type_ignore_re"  type\s*:\s*ignore\[(?P<error_code>[a-z, \-]+)\]
\*   "type_ignore_re"      type\s*:\s*ignore(\[(?P<error_codes>[a-z, \-]+)\])?
\*   "delete_re"           type\s*:\s*ignore\s*(\[\])?
\*   "remove_re"           type\s*:\s*ignore(\[[a-z, \-]+\])?
MatchAt(re, s, i) ==
    LET e == MatchTypeIgnore(s, i)
    IN IF e = 0 THEN 0
       ELSE CASE re = "old_type_ignore_re" -> MatchCodes(s, e)
              [] re \in {"type_ignore_re", "remove_re"} ->
                    IF MatchCodes(s, e) # 0 THEN MatchCodes(s, e) ELSE e
              [] re = "delete_re" ->
                    LET j == SkipSpaces(s, e)
                    IN IF StartsWithAt(s, j, <<"[", "]">>) THEN j + 2 ELSE j

\* re.search: the start of the leftmost match, 0 if there is none.
Search(re, s) ==
    IF \E i \in 1..Len(s) : MatchAt(re, s, i) # 0
    THEN CHOOSE i \in 1..Len(s) :
            /\ MatchAt(re, s, i) # 0
            /\ \A j \in 1..(i - 1) : MatchAt(re, s, j) = 0
    ELSE 0

\* match.group("error_code") / match.group("error_codes") of the match that
\* starts at i: the text between the brackets, <<>> when the group took no
\* part in the match (None).
Group(re, s, i) ==
    LET e == MatchTypeIgnore(s, i)
    IN IF MatchCodes(s, e) = 0 THEN <<>>
       ELSE SubSeq(s, e + 1, MatchCodes(s, e) - 2)

\* re.sub(pattern, "", s): every non-overlapping match removed, from the left.
RECURSIVE SubFrom(_, _, _)
SubFrom(re, s, i) ==
    IF i > Len(s) THEN <<>>
    ELSE IF MatchAt(re, s, i) # 0 THEN SubFrom(re, s, MatchAt(re, s, i))
    ELSE <<s[i]>> \o SubFrom(re, s, i + 1)

Sub(re, s) == SubFrom(re, s, 1)

(***************************************************************************)
(*                 utils.py: UnsilenceableRegion, MypyError                *)
(***************************************************************************)
LineNos == 1..MaxLine
ColOffsets == 0..MaxCol
Position == [line : LineNos, col : ColOffsets]

\* Python's tuple comparison (line, col) <= (line, col).
TupleLeq(a, b) == a.line < b.line \/ (a.line = b.line /\ a.col <= b.col)

\* The columns at which the modelled regions start and end.  The resolver
\* only compares a column of an error with a column of a region, so a region's
\* columns are taken at the two ends of the column range while an error's
\* column ranges over all of it: every order between the two occurs.
RegionCols == {0, MaxCol}

\* A multi-line string token: its start line differs from its end line.
MultilineStringRegions ==
    {r \in [start : Position, end : Position] :
        /\ r.start.line < r.end.line
        /\ r.start.col \in RegionCols
        /\ r.end.col \in RegionCols}

\* An explicitly continued line: start = (line, 0), end = (line, len(line)).
ContinuationRegions ==
    {r \in [start : Position, end : Position] :
        /\ r.start.line = r.end.line
        /\ r.start.col = 0
        /\ r.end.col = MaxCol}

UnsilenceableRegion == MultilineStringRegions \cup ContinuationRegions

MypyError == [line_no : LineNos, col_offset : ColOffsets \cup {None}]

RegionLists ==
    UNION {[1..n -> UnsilenceableRegion] : n \in 0..MaxRegions}

(***************************************************************************)
(*                       utils.py: find_safe_end_line                      *)
(***************************************************************************)
\* "It is safe to comment the last line of a multiline string"
IsClosingLineAlways(err, region) == FALSE

IsClosingLine(err, region) ==
    err.line_no = region.end.line /\ region.start.line # region.end.line

\* The two tests that return -1: the error lies within the region.
IsWithinStrict(err, region) ==
    \/ /\ err.col_offset = None
       /\ region.start.line < err.line_no
       /\ err.line_no < region.end.line
    \/ /\ err.col_offset # None
       /\ TupleLeq(region.start, [line |-> err.line_no, col |-> err.col_offset])
       /\ TupleLeq([line |-> err.line_no, col |-> err.col_offset], region.end)

IsWithin(err, region) ==
    \/ /\ err.col_offset = None
       /\ region.start.line <= err.line_no
       /\ err.line_no <= region.end.line
    \/ /\ err.col_offset # None
       /\ TupleLeq(region.start, [line |-> err.line_no, col |-> err.col_offset])
       /\ TupleLeq([line |-> err.line_no, col |-> err.col_offset], region.end)

\* "Error precedes same line multiline string"
PrecedesAnyMultilineString(err, region) ==
    region.start.line # region.end.line

PrecedesMultilineString(err, region) ==
    err.line_no = region.start.line /\ region.start.line # region.end.line

\* new_line, new_col_offset taken from a redirecting region.
RelocationToStart(region) ==
    [new_line |-> region.start.line, new_col_offset |-> region.start.col]

Relocation(region) ==
    [new_line |-> region.end.line, new_col_offset |-> region.end.col]

\* The for loop of one activation, from region i on.  new holds new_line and
\* new_col_offset.  returned tells that the loop was left by "return -1".
RECURSIVE ScanRegions(_, _, _, _)
ScanRegions(err, rs, i, new) ==
    IF i > Len(rs) THEN [returned |-> FALSE, new |-> new]
    ELSE IF IsClosingLine(err, rs[i]) THEN ScanRegions(err, rs, i + 1, new)
    ELSE IF IsWithin(err, rs[i]) THEN [returned |-> TRUE, new |-> new]
    ELSE IF PrecedesMultilineString(err, rs[i])
         THEN ScanRegions(err, rs, i + 1, Relocation(rs[i]))
    ELSE ScanRegions(err, rs, i + 1, new)

NoRelocation == [new_line |-> None, new_col_offset |-> None]

\* One activation returns: -1 from inside the loop, or error.line_no when
\* no region redirected the error (new_line is None).
Return ==
    /\ pc = "call"
    /\ LET out == ScanRegions(cur, regions, 1, NoRelocation)
       IN /\ out.returned \/ out.new.new_line = None
          /\ result' = IF out.returned THEN CannotSuppress ELSE cur.line_no
    /\ pc' = "done"
    /\ UNCHANGED <<regions, error, cur, depth>>
    /\ UNCHANGED <<editorVars, splitterVars, mutatorVars, finderVars>>

\* One activation ends in the recursive call on the relocated error.
Recurse ==
    /\ pc = "call"
    /\ depth <= MaxRegions
    /\ LET out == ScanRegions(cur, regions, 1, NoRelocation)
       IN /\ ~out.returned
          /\ out.new.new_line # None
          /\ cur' = [line_no |-> out.new.new_line,
                     col_offset |-> out.new.new_col_offset]
    /\ depth' = depth + 1
    /\ UNCHANGED <<regions, error, pc, result>>
    /\ UNCHANGED <<editorVars, splitterVars, mutatorVars, finderVars>>

(***************************************************************************)
(*                  Properties of find_safe_end_line                       *)
(***************************************************************************)
\* The vocabulary of the statements, written from their wording.
Spans(r) == r.start.line < r.end.line

\* The position (ln, col) lies in r; with an unknown column, the line does.
Inside(r, ln, col) ==
    IF col = None
    THEN r.start.line <= ln /\ ln <= r.end.line
    ELSE /\ r.start.line < ln \/ (r.start.line = ln /\ r.start.col <= col)
         /\ ln < r.end.line \/ (ln = r.end.line /\ col <= r.end.col)

\* r blocks the position: the position is inside r and not on the closing
\* line of a multi-line r.
BlockedBy(r, ln, col) ==
    Inside(r, ln, col) /\ ~(Spans(r) /\ r.end.line = ln)

\* r redirects an error of that line: r is a multi-line string starting there.
RedirectedBy(r, ln) == Spans(r) /\ r.start.line = ln

\* No region other than the i-th blocks or redirects the position.
FreeOfOthers(i, ln, col) ==
    \A j \in 1..Len(regions) :
        j # i => ~BlockedBy(regions[j], ln, col)
                 /\ ~RedirectedBy(regions[j], ln)

\* C1 as stated: an error on the start line of a multi-line string region R
\* resolves to R's end line whatever its column (unknown, before the string
\* or inside it), provided R's end position is neither blocked nor redirected
\* by another region.
C1_StartLineResolvesToEnd ==
    pc = "done" =>
        \A i \in 1..Len(regions) :
            ( /\ RedirectedBy(regions[i], error.line_no)
              /\ FreeOfOthers(i, regions[i].end.line, regions[i].end.col) )
            => result = regions[i].end.line

\* C1 amended: an error on the start line of a multi-line string region R
\* whose column is known and lies before the string resolves to R's end
\* line, provided neither the error's own position nor R's end position is
\* blocked or redirected by another region.
C1_BeforeStringResolvesToEnd ==
    pc = "done" =>
        \A i \in 1..Len(regions) :
            ( /\ RedirectedBy(regions[i], error.line_no)
              /\ error.col_offset # None
              /\ error.col_offset < regions[i].start.col
              /\ FreeOfOthers(i, error.line_no, error.col_offset)
              /\ FreeOfOthers(i, regions[i].end.line, regions[i].end.col) )
            => result = regions[i].end.line

\* An error before a multi-line string, beside an unrelated second region,
\* has been relocated to the string's closing line.
C1_Witness ==
    /\ pc = "done"
    /\ Len(regions) = 2
    /\ depth = 1
    /\ RedirectedBy(regions[1], error.line_no)
    /\ error.col_offset # None
    /\ error.col_offset < regions[1].start.col
    /\ FreeOfOthers(1, error.line_no, error.col_offset)
    /\ FreeOfOthers(1, regions[1].end.line, regions[1].end.col)
    /\ result = regions[1].end.line

\* C2: whenever some region contains the error (its position when the column
\* is known, its line when it is not) and the error's line is not the closing
\* line of that multi-line region, the result is the cannot-suppress sentinel,
\* whatever else the collection holds and in whatever order.
C2_InsideRegionIsUnsuppressable ==
    pc = "done" =>
        ( (\E i \in 1..Len(regions) :
              BlockedBy(regions[i], error.line_no, error.col_offset))
          => result = CannotSuppress )

\* The blocking region comes second, after a region that redirects the error.
C2_Witness ==
    /\ pc = "done"
    /\ Len(regions) = 2
    /\ RedirectedBy(regions[1], error.line_no)
    /\ ~Inside(regions[1], error.line_no, error.col_offset)
    /\ ~Spans(regions[2])
    /\ BlockedBy(regions[2], error.line_no, error.col_offset)
    /\ result = CannotSuppress

\* C3: when every region either lies off the error's line or is a multi-line
\* string closing on the error's line, the result is the error's own line.
C3_UntouchedLineIsKept ==
    pc = "done" =>
        ( (\A i \in 1..Len(regions) :
              \/ error.line_no < regions[i].start.line
              \/ error.line_no > regions[i].end.line
              \/ (Spans(regions[i]) /\ regions[i].end.line = error.line_no))
          => result = error.line_no )

\* An error inside the closing line of a multi-line string, with a second
\* region elsewhere in the file, keeps its line.
C3_Witness ==
    /\ pc = "done"
    /\ Len(regions) = 2
    /\ Spans(regions[1])
    /\ regions[1].end.line = error.line_no
    /\ Inside(regions[1], error.line_no, error.col_offset)
    /\ error.line_no < regions[2].start.line
    /\ result = error.line_no

\* C10: every recursive call is made with a line number strictly greater than
\* its caller's, and the number of recursive calls never exceeds the number of
\* regions (so the depth guard of Recurse never stops a call).
C10_RecursionAdvances ==
    [][ /\ depth' # depth => cur'.line_no > cur.line_no
        /\ depth' <= Len(regions') ]_vars

\* A chain of two relocations has run to its end.
C10_Witness == pc = "done" /\ depth = 2 /\ result = MaxLine

(***************************************************************************)
(*                               editing.py                                *)
(***************************************************************************)
S_prefix == <<"#", " ">> \o S_type_ignore \o <<"[">>

\* old_error_codes of add_type_ignore_comment: the codes of the first
\* annotation of the comment, spaces removed, split at the commas.
old_error_codes(cmt) ==
    IF Search("old_type_ignore_re", cmt) = 0 THEN {}
    ELSE Range(Split(Replace(Group("old_type_ignore_re", cmt,
                                   Search("old_type_ignore_re", cmt)),
                             <<" ">>, <<>>), ","))

\* The codes error_codes.extend(...) appends: those of the set
\* old_error_codes that the list does not hold.
ExtendedBy(cmt, codes) == old_error_codes(cmt) \ Range(codes)

\* The remainder of the comment that follows the new annotation.
TrailingComment(cmt) ==
    IF Search("old_type_ignore_re", cmt) # 0
    THEN LET rest == Sub("old_type_ignore_re", cmt)
         IN IF ~HasOtherThanHashAndSpace(rest) THEN <<>>
            ELSE <<" ", "#", " ">> \o LStrip(rest, {"#", " "})
    ELSE IF cmt # <<>>
         THEN <<" ", "#", " ">> \o LStrip(cmt, {"#", " "})
    ELSE <<>>

\* The list after error_codes.extend(...), the appended codes in some order
\* (a set is iterated in no fixed order); sorted(...) makes the order
\* immaterial to the returned text.
SortedErrorCodes(cmt, codes) ==
    LET new == ExtendedBy(cmt, codes)
        order == CHOOSE f \in [1..Cardinality(new) -> new] :
                    \A i, j \in 1..Cardinality(new) : i # j => f[i] # f[j]
    IN Sorted(codes \o order)

add_type_ignore_comment(cmt, codes) ==
    S_prefix \o Join(SortedErrorCodes(cmt, codes), <<",", " ">>) \o <<"]">>
        \o TrailingComment(cmt)

\* pruned_error_codes of format_type_ignore_comment: the stripped, non-empty
\* entries of error_codes.split(",").
RECURSIVE PruneCodes(_)
PruneCodes(list) ==
    IF list = <<>> THEN <<>>
    ELSE IF Strip(list[1]) # <<>>
         THEN <<Strip(list[1])>> \o PruneCodes(Tail(list))
    ELSE PruneCodes(Tail(list))

\* Lines 71-78: delete "type: ignore", "type: ignore[]".
DeleteTypeIgnore(cmt) ==
    LET formatted_comment == Sub("delete_re", cmt)
    IN IF ~HasOtherThanHashAndSpace(formatted_comment) THEN <<>>
       ELSE formatted_comment

RECURSIVE format_type_ignore_comment(_)
format_type_ignore_comment(cmt) ==
    LET m == Search("type_ignore_re", cmt)
        codes == IF m = 0 THEN <<>> ELSE Group("type_ignore_re", cmt, m)
    IN IF m # 0 /\ codes # <<>>
       THEN LET pruned_error_codes == PruneCodes(Split(codes, ","))
                formatted_comment ==
                    Replace(cmt, codes, Join(pruned_error_codes, <<",", " ">>))
            IN IF pruned_error_codes # <<>> THEN formatted_comment
               ELSE format_type_ignore_comment(formatted_comment)
       ELSE DeleteTypeIgnore(cmt)

\* The loop of remove_unused_type_ignore: each code's text replaced by "".
RECURSIVE RemoveEach(_, _)
RemoveEach(cmt, codes) ==
    IF codes = <<>> THEN cmt
    ELSE RemoveEach(Replace(cmt, codes[1], <<>>), Tail(codes))

remove_unused_type_ignore(cmt, codes_to_remove) ==
    IF codes_to_remove # <<>> THEN RemoveEach(cmt, codes_to_remove)
    ELSE Sub("remove_re", cmt)

(***************************************************************************)
(*              The comments and code lists the editor is given            *)
(***************************************************************************)
\* The error codes of the examples.
S_a ==
    <<"a">>
S_b ==
    <<"b">>
S_c ==
    <<"c">>
S_arg_type ==
    <<"a", "r", "g", "-", "t", "y", "p", "e">>
S_return_value ==
    <<"r", "e", "t", "u", "r", "n", "-", "v", "a", "l", "u", "e">>

\* A comment is a head, an annotation keyword, a bracket and a tail.
Heads ==
    { <<"#", " ">>,
      <<"#", " ", "t", "y", "p", "e", ":", " ", "i", "g">> }

Keywords ==
    { <<>>,
      <<"t", "y", "p", "e", ":", " ", "i", "g", "n", "o", "r", "e">>,
      <<"t", "y", "p", "e", ":", "i", "g", "n", "o", "r", "e">> }

Brackets ==
    { <<>>,
      <<"[", "a", "]">>,
      <<"[", "a", ",", "]">>,
      <<"[", "a", " ", ",", "b", "]">>,
      <<"[", "a", "r", "g", "-", "t", "y", "p", "e", "]">> }

Tails ==
    { <<>>,
      <<" ", " ", "#", " ", "k", "e", "e", "p", " ", "m", "e">>,
      <<"n", "o", "r", "e">> }

Comments ==
    {h \o k \o b \o t : h \in Heads, k \in Keywords, b \in Brackets, t \in Tails}

\* The lists of codes handed to add_type_ignore_comment.
CodeLists ==
    { <<S_b>>, <<S_a, S_c>>, <<S_a, S_b, S_c>>, <<S_a, S_a>>,
      <<S_return_value>> }

\* The codes handed to remove_unused_type_ignore.
RemovalLists == { <<>>, <<S_a>>, <<S_arg_type>> }

(***************************************************************************)
(*                     editing.py: the calls, as actions                   *)
(***************************************************************************)
\* The orders in which the elements of a set can be iterated.
Orderings(S) ==
    {f \in [1..Cardinality(S) -> S] :
        \A i, j \in 1..Cardinality(S) : i # j => f[i] # f[j]}

\* add_type_ignore_comment(comment, codes), where codes is a new list or the
\* list object of the previous call.  The call extends the list it is given.
Add ==
    /\ op \notin {"idle"}
    /\ nops < MaxOps
    /\ \E codes \in CodeLists \cup {error_codes} :
         \E order \in Orderings(ExtendedBy(comment, codes)) :
            /\ comment' = add_type_ignore_comment(comment, codes)
            /\ error_codes' = codes \o order
            /\ arg' = codes
    /\ before' = comment
    /\ prevOp' = op
    /\ op' = "add"
    /\ nops' = nops + 1
    /\ UNCHANGED <<resolverVars, splitterVars, mutatorVars, finderVars>>

\* format_type_ignore_comment(comment).
Format ==
    /\ op \notin {"idle"}
    /\ nops < MaxOps
    /\ comment' = format_type_ignore_comment(comment)
    /\ arg' = <<>>
    /\ before' = comment
    /\ prevOp' = op
    /\ op' = "format"
    /\ nops' = nops + 1
    /\ UNCHANGED <<error_codes, resolverVars, splitterVars, mutatorVars, finderVars>>

\* remove_unused_type_ignore(comment, codes_to_remove).
Remove ==
    /\ op \notin {"idle"}
    /\ nops < MaxOps
    /\ \E codes_to_remove \in RemovalLists :
            /\ comment' = remove_unused_type_ignore(comment, codes_to_remove)
            /\ arg' = codes_to_remove
    /\ before' = comment
    /\ prevOp' = op
    /\ op' = "remove"
    /\ nops' = nops + 1
    /\ UNCHANGED <<error_codes, resolverVars, splitterVars, mutatorVars, finderVars>>

(***************************************************************************)
(*                       Properties of editing.py                          *)
(***************************************************************************)
\* The codes a comment's existing annotation lists: the entries of its
\* bracket, blanks trimmed, empty entries dropped.
AnnotationCodes(cmt) ==
    IF Search("old_type_ignore_re", cmt) = 0 THEN <<>>
    ELSE PruneCodes(Split(Group("old_type_ignore_re", cmt,
                                Search("old_type_ignore_re", cmt)), ","))

\* The text between the brackets of the annotation a comment starts with.
BracketContent(cmt) ==
    SubSeq(cmt, Len(S_prefix) + 1, Find(cmt, "]") - 1)

\* The elements of a set of str as a sorted, duplicate-free list.
RECURSIVE SortedSet(_)
SortedSet(S) ==
    IF S = {} THEN <<>>
    ELSE LET least == CHOOSE x \in S : \A y \in S \ {x} : StrLess(x, y)
         IN <<least>> \o SortedSet(S \ {least})

\* The entries of list that are not in the set S, in their order.
RECURSIVE Without(_, _)
Without(list, S) ==
    IF list = <<>> THEN <<>>
    ELSE IF list[1] \in S THEN Without(Tail(list), S)
    ELSE <<list[1]>> \o Without(Tail(list), S)

\* C6: the bracket content of the annotation add_type_ignore_comment returns
\* is the sorted, duplicate-free union of the codes of the existing
\* annotation and the added codes, comma-space separated, no entry empty.
C6_BracketIsSortedUnion ==
    op = "add" =>
        BracketContent(comment) =
            Join(SortedSet(Range(AnnotationCodes(before)) \cup Range(arg)),
                 <<",", " ">>)

\* A comment of the canonical reduced form without annotation: empty, or one
\* comment marker, one blank and the free text.
IsCanonicalRemainder(cmt) ==
    \/ cmt = <<>>
    \/ /\ Len(cmt) >= 3
       /\ cmt[1] = "#"
       /\ cmt[2] = " "
       /\ cmt[3] \notin {"#", " "}

\* The codes that survive a removal: none when the removal set is empty
\* (the whole annotation goes), else the annotation's codes not removed.
SurvivingCodes(cmt, removed) ==
    IF removed = <<>> THEN <<>>
    ELSE Without(AnnotationCodes(cmt), Range(removed))

\* C7: given a comment with an annotation, remove_unused_type_ignore
\* returns a comment in canonical reduced form: a well-formed annotation of
\* exactly the surviving codes if any survives, else no annotation at all and
\* the canonical remainder.
C7_RemoveGivesCanonicalForm ==
    (op = "remove" /\ Search("type_ignore_re", before) # 0) =>
        IF SurvivingCodes(before, arg) # <<>>
        THEN /\ Search("old_type_ignore_re", comment) # 0
             /\ Group("old_type_ignore_re", comment,
                      Search("old_type_ignore_re", comment))
                    = Join(SurvivingCodes(before, arg), <<",", " ">>)
        ELSE /\ Search("type_ignore_re", comment) = 0
             /\ IsCanonicalRemainder(comment)

\* C8: format_type_ignore_comment is idempotent: formatting the result of a
\* formatting returns it unchanged.
C8_FormatIsIdempotent ==
    (op = "format" /\ prevOp = "format") => comment = before

\* C11: add_type_ignore_comment leaves the list the caller passed in as it
\* was: after a call the list holds exactly the codes it held at the call.
C11_CallerCodesUnchanged ==
    op = "add" => Range(error_codes) = Range(arg)

(***************************************************************************)
(*                    utils.py: split_code_and_comment                     *)
(***************************************************************************)
IsQuote(c) == c \in {"'", "\""}

\* The end of the physical line: the position of its "\n", or past its end.
RECURSIVE EndOfLine(_, _)
EndOfLine(s, i) ==
    IF i > Len(s) \/ s[i] = "\n" THEN i ELSE EndOfLine(s, i + 1)

\* The closing quote of a single-quoted string opened before i: the first
\* q on the same line, 0 if the line ends first.
RECURSIVE ClosingQuote(_, _, _)
ClosingQuote(s, i, q) ==
    IF i > Len(s) \/ s[i] = "\n" THEN 0
    ELSE IF s[i] = q THEN i
    ELSE ClosingQuote(s, i + 1, q)

\* The closing qqq of a triple-quoted string opened before i, 0 if none.
RECURSIVE ClosingTriple(_, _, _)
ClosingTriple(s, i, q) ==
    IF i > Len(s) THEN 0
    ELSE IF StartsWithAt(s, i, <<q, q, q>>) THEN i
    ELSE ClosingTriple(s, i + 1, q)

\* tokenize.generate_tokens over the text, from position i on: the start
\* columns of the COMMENT tokens, whether an ERRORTOKEN was produced (a quote
\* that opens no string), and whether the generator raised TokenError (the
\* text ends inside a triple-quoted string or with brackets unbalanced).
RECURSIVE Tokens(_, _, _, _)
Tokens(s, i, parenlev, toks) ==
    IF i > Len(s)
    THEN [toks EXCEPT !.TokenError = (parenlev # 0)]
    ELSE IF s[i] = "#"
         THEN Tokens(s, EndOfLine(s, i), parenlev,
                     [toks EXCEPT !.COMMENT = Append(@, i - 1)])
    ELSE IF IsQuote(s[i]) /\ StartsWithAt(s, i, <<s[i], s[i], s[i]>>)
         THEN IF ClosingTriple(s, i + 3, s[i]) = 0
              THEN [toks EXCEPT !.TokenError = TRUE]
              ELSE Tokens(s, ClosingTriple(s, i + 3, s[i]) + 3, parenlev, toks)
    ELSE IF IsQuote(s[i])
         THEN IF ClosingQuote(s, i + 1, s[i]) = 0
              THEN Tokens(s, i + 1, parenlev,
                          [toks EXCEPT !.ERRORTOKEN = TRUE])
              ELSE Tokens(s, ClosingQuote(s, i + 1, s[i]) + 1, parenlev, toks)
    ELSE IF s[i] = "(" THEN Tokens(s, i + 1, parenlev + 1, toks)
    ELSE IF s[i] = ")" THEN Tokens(s, i + 1, parenlev - 1, toks)
    ELSE Tokens(s, i + 1, parenlev, toks)

generate_tokens(s) ==
    Tokens(s, 1, 0, [COMMENT |-> <<>>, ERRORTOKEN |-> FALSE,
                     TokenError |-> FALSE])

\* The first "#" of the text taken for the start of a comment.
HashColumns(s) ==
    IF Find(s, "#") = 0 THEN <<>> ELSE <<Find(s, "#") - 1>>

\* comment_tokens: the start columns of the COMMENT tokens of the line.
comment_tokens(s) == generate_tokens(s).COMMENT

\* line[0:col] and line[col:] for a 0-based column.
Before(s, col) == SubSeq(s, 1, col)
From(s, col) == SubSeq(s, col + 1, Len(s))

\* The pair split_code_and_comment returns.
split_code_and_comment(s) ==
    IF generate_tokens(s).TokenError
    THEN LET comment_start == Find(s, "#") - 1
         IN IF comment_start >= 0
            THEN <<RStrip(Before(s, comment_start)), From(s, comment_start)>>
            ELSE <<RStrip(s), <<>>>>
    ELSE IF comment_tokens(s) = <<>> THEN <<RStrip(s), <<>>>>
    ELSE <<RStrip(Before(s, comment_tokens(s)[1])),
           From(s, comment_tokens(s)[1])>>

\* The call returns by "if not comment_tokens: return line.rstrip(), ''".
SplitNoComment ==
    /\ splitPc = "call"
    /\ ~generate_tokens(line).TokenError
    /\ comment_tokens(line) = <<>>
    /\ python_code' = split_code_and_comment(line)[1]
    /\ python_comment' = split_code_and_comment(line)[2]
    /\ splitPc' = "done"
    /\ UNCHANGED <<line, resolverVars, editorVars, mutatorVars, finderVars>>

\* The call cuts the line at the start column of its first COMMENT token.
SplitAtComment ==
    /\ splitPc = "call"
    /\ ~generate_tokens(line).TokenError
    /\ comment_tokens(line) # <<>>
    /\ python_code' = split_code_and_comment(line)[1]
    /\ python_comment' = split_code_and_comment(line)[2]
    /\ splitPc' = "done"
    /\ UNCHANGED <<line, resolverVars, editorVars, mutatorVars, finderVars>>

\* The call goes through "except tokenize.TokenError": the line is cut at
\* its first "#", if it has one.
SplitFallback ==
    /\ splitPc = "call"
    /\ generate_tokens(line).TokenError
    /\ python_code' = split_code_and_comment(line)[1]
    /\ python_comment' = split_code_and_comment(line)[2]
    /\ splitPc' = "done"
    /\ UNCHANGED <<line, resolverVars, editorVars, mutatorVars, finderVars>>

\* The lines handed to split_code_and_comment: up to MaxPieces pieces, with
\* or without the newline that ends a line read from a file.
Pieces ==
    { <<"x">>, <<" ">>, <<"#">>, <<"'">>, <<"\"">>, <<"(">>,
      <<"'", "'", "'">> }

RECURSIVE Concat(_)
Concat(list) == IF list = <<>> THEN <<>> ELSE list[1] \o Concat(Tail(list))

SourceLines ==
    {Concat(ps) \o nl :
        ps \in UNION {[1..n -> Pieces] : n \in 0..MaxPieces},
        nl \in {<<>>, <<"\n">>}}

(***************************************************************************)
(*                  Properties of split_code_and_comment                   *)
(***************************************************************************)
\* The line tokenizes on its own: the tokenizer neither raises nor produces
\* an error token.
Tokenizes(s) ==
    ~generate_tokens(s).TokenError /\ ~generate_tokens(s).ERRORTOKEN

\* Whether the text p ends inside a string literal: q is the quote of the
\* literal the scan is in and n the length of its delimiter (0: in code).
RECURSIVE EndsInLiteral(_, _, _, _)
EndsInLiteral(p, i, q, n) ==
    IF i > Len(p) THEN n # 0
    ELSE IF n = 0
         THEN IF ~IsQuote(p[i]) THEN EndsInLiteral(p, i + 1, q, 0)
              ELSE IF StartsWithAt(p, i, <<p[i], p[i], p[i]>>)
                   THEN EndsInLiteral(p, i + 3, p[i], 3)
              ELSE EndsInLiteral(p, i + 1, p[i], 1)
    ELSE IF n = 1
         THEN IF p[i] = q THEN EndsInLiteral(p, i + 1, q, 0)
              ELSE EndsInLiteral(p, i + 1, q, 1)
    ELSE IF StartsWithAt(p, i, <<q, q, q>>)
         THEN EndsInLiteral(p, i + 3, q, 0)
    ELSE EndsInLiteral(p, i + 1, q, 3)

\* The "#" at position k is inside a string literal.
InStringLiteral(s, k) == EndsInLiteral(SubSeq(s, 1, k - 1), 1, "'", 0)

\* The positions of the "#" characters outside string literals that no
\* such "#" precedes: the genuine comment marker, if there is one.
GenuineMarkers(s) ==
    {k \in 1..Len(s) :
        /\ s[k] = "#"
        /\ ~InStringLiteral(s, k)
        /\ \A j \in 1..(k - 1) : s[j] = "#" => InStringLiteral(s, j)}

\* C9: for a line that tokenizes on its own, the result is (the line without
\* its trailing whitespace, "") when the line has no genuine comment, else
\* (the text before the first genuine marker without its trailing
\* whitespace, the rest of the line from that marker to its end); a "#"
\* inside a string literal is never the marker.
C9_SplitAtGenuineMarker ==
    (splitPc = "done" /\ Tokenizes(line)) =>
        IF GenuineMarkers(line) = {}
        THEN python_code = RStrip(line) /\ python_comment = <<>>
        ELSE \A k \in GenuineMarkers(line) :
                /\ python_code = RStrip(SubSeq(line, 1, k - 1))
                /\ python_comment = SubSeq(line, k, Len(line))

\* A line with a "#" inside a string literal, then a genuine comment that
\* runs to the newline, has been split at the genuine marker.
C9_Witness ==
    /\ splitPc = "done"
    /\ Tokenizes(line)
    /\ \E k \in GenuineMarkers(line) :
          /\ \E j \in 1..(k - 1) : line[j] = "#"
          /\ python_comment = SubSeq(line, k, Len(line))
          /\ line[Len(line)] = "\n"
          /\ python_code # <<>>

(***************************************************************************)
(*                  find_unsilenceable_regions (utils.py)                  *)
(***************************************************************************)
\* The characters source text is made of: a name character, the quote, the
\* backslash, the newline and the comment marker.
SourceChars == {"x", "'", "\\", "\n", "#"}

\* The texts a stream can hold.
Streams == UNION {[1..n -> SourceChars] : n \in 0..MaxChars}

\* stream.readline, called until it returns '': the physical lines of the
\* text, each with its newline.
RECURSIVE ReadLines(_, _)
ReadLines(s, i) ==
    IF i > Len(s) THEN <<>>
    ELSE LET nl == Find(SubSeq(s, i, Len(s)), "\n")
         IN  IF nl = 0 THEN <<SubSeq(s, i, Len(s))>>
             ELSE <<SubSeq(s, i, i + nl - 1)>> \o ReadLines(s, i + nl)

\* tokenize.TokenInfo, without the token's own text: find_unsilenceable_regions
\* reads exact_type, start, end and line.
TokenInfo(type, start, end, ln) ==
    [exact_type |-> type, start |-> start, end |-> end, line |-> ln]

\* endpats["'"].match(ln, pos): the column after the closing quote of a
\* string continued from an earlier line, -1 without a match.  A backslash
\* escapes the character after it unless that is the newline.
RECURSIVE EndSingle(_, _)
EndSingle(ln, pos) ==
    IF pos >= Len(ln) THEN -1
    ELSE IF ln[pos + 1] = "'" THEN pos + 1
    ELSE IF ln[pos + 1] = "\\"
         THEN IF pos + 2 <= Len(ln) /\ ln[pos + 2] # "\n"
              THEN EndSingle(ln, pos + 2)
              ELSE -1
    ELSE EndSingle(ln, pos + 1)

\* endpats["'''"].match(ln, pos): the column after the closing triple quote,
\* -1 without a match.
RECURSIVE EndTriple(_, _)
EndTriple(ln, pos) ==
    IF pos >= Len(ln) THEN -1
    ELSE IF ln[pos + 1] = "'"
         THEN IF StartsWithAt(ln, pos + 1, <<"'", "'", "'">>)
              THEN pos + 3
              ELSE EndTriple(ln, pos + 1)
    ELSE IF ln[pos + 1] = "\\"
         THEN IF pos + 2 <= Len(ln) /\ ln[pos + 2] # "\n"
              THEN EndTriple(ln, pos + 2)
              ELSE -1
    ELSE EndTriple(ln, pos + 1)

\* The ContStr alternative of PseudoToken at an opening quote, scanned from
\* the column after the quote: the column after the closing quote or after
\* the backslash and newline that continue the string, -1 without a match.
RECURSIVE ContStr(_, _)
ContStr(ln, pos) ==
    IF pos >= Len(ln) THEN -1
    ELSE IF ln[pos + 1] = "'" THEN pos + 1
    ELSE IF ln[pos + 1] = "\n" THEN -1
    ELSE IF ln[pos + 1] = "\\"
         THEN IF pos + 2 > Len(ln) THEN -1
              ELSE IF ln[pos + 2] = "\n" THEN pos + 2
              ELSE ContStr(ln, pos + 2)
    ELSE ContStr(ln, pos + 1)

\* The Name alternative of PseudoToken: the column after a run of name
\* characters.
RECURSIVE NameEnd(_, _)
NameEnd(ln, pos) ==
    IF pos < Len(ln) /\ ln[pos + 1] = "x" THEN NameEnd(ln, pos + 1) ELSE pos

\* The Comment alternative of PseudoToken: the column after the comment,
\* which stops before the newline.
CommentEnd(ln) == IF ln[Len(ln)] = "\n" THEN Len(ln) - 1 ELSE Len(ln)

\* A (line, column) pair of a token.
At(lnum, col) == [line |-> lnum, col |-> col]

\* The tokenizer's variables between lines: the tokens yielded so far,
\* the kind of string being continued ("none", "single" or "triple"; contstr
\* and endprog), strstart, contline and continued.
NoTokens ==
    [toks |-> <<>>, contstr |-> "none", strstart |-> At(0, 0),
     contline |-> <<>>, continued |-> FALSE]

\* st with one more token yielded.
Yield(st, tok) == [st EXCEPT !.toks = Append(@, tok)]

\* The loop `while pos < max` over the tokens of line ln from column pos.
RECURSIVE ScanLine(_, _, _, _)
ScanLine(ln, lnum, pos, st) ==
    IF pos >= Len(ln) THEN st
    ELSE LET initial == ln[pos + 1]
             errortoken ==
                 ScanLine(ln, lnum, pos + 1,
                     Yield(st, TokenInfo("ERRORTOKEN", At(lnum, pos),
                                         At(lnum, pos + 1), ln)))
         IN
         IF initial = "\\" THEN
             IF pos + 2 <= Len(ln) /\ ln[pos + 2] = "\n"
             THEN ScanLine(ln, lnum, pos + 2, [st EXCEPT !.continued = TRUE])
             ELSE errortoken
         ELSE IF initial = "#" THEN
             ScanLine(ln, lnum, CommentEnd(ln),
                 Yield(st, TokenInfo("COMMENT", At(lnum, pos),
                                     At(lnum, CommentEnd(ln)), ln)))
         ELSE IF initial = "\n" THEN
             ScanLine(ln, lnum, pos + 1,
                 Yield(st, TokenInfo("NEWLINE", At(lnum, pos),
                                     At(lnum, pos + 1), ln)))
         ELSE IF StartsWithAt(ln, pos + 1, <<"'", "'", "'">>) THEN
             LET end == EndTriple(ln, pos + 3)
             IN  IF end # -1
                 THEN ScanLine(ln, lnum, end,
                          Yield(st, TokenInfo("STRING", At(lnum, pos),
                                              At(lnum, end), ln)))
                 ELSE [st EXCEPT !.contstr = "triple",
                                 !.strstart = At(lnum, pos),
                                 !.contline = ln]
         ELSE IF initial = "'" THEN
             LET end == ContStr(ln, pos + 1)
             IN  IF end = -1 THEN errortoken
                 ELSE IF ln[end] = "\n"
                 THEN [st EXCEPT !.contstr = "single",
                                 !.strstart = At(lnum, pos),
                                 !.contline = ln]
                 ELSE ScanLine(ln, lnum, end,
                          Yield(st, TokenInfo("STRING", At(lnum, pos),
                                              At(lnum, end), ln)))
         ELSE
             ScanLine(ln, lnum, NameEnd(ln, pos),
                 Yield(st, TokenInfo("NAME", At(lnum, pos),
                                     At(lnum, NameEnd(ln, pos)), ln)))

\* The tokens that end the stream: an implicit NEWLINE if the text does not
\* end in a newline and its last line is no comment, then ENDMARKER.
EndTokens(ls) ==
    LET lnum == Len(ls) + 1
        last_line == IF ls = <<>> THEN <<>> ELSE ls[Len(ls)]
    IN  (IF /\ last_line # <<>>
            /\ last_line[Len(last_line)] # "\n"
            /\ last_line[1] # "#"
         THEN <<TokenInfo("NEWLINE", At(lnum - 1, Len(last_line)),
                          At(lnum - 1, Len(last_line) + 1), <<>>)>>
         ELSE <<>>)
        \o <<TokenInfo("ENDMARKER", At(lnum, 0), At(lnum, 0), <<>>)>>

\* line[-2:] = '\\\n'
EndsInBackslashNewline(ln) ==
    Len(ln) >= 2 /\ ln[Len(ln) - 1] = "\\" /\ ln[Len(ln)] = "\n"

\* The loop over the lines of the stream, from line lnum on.  The result is
\* the list of tokens, or raised when the text ends inside a string or after
\* a continuation backslash (tokenize.TokenError).
RECURSIVE TokenizeLines(_, _, _)
TokenizeLines(ls, lnum, st) ==
    LET ln == IF lnum <= Len(ls) THEN ls[lnum] ELSE <<>>
        raise == [raised |-> TRUE, toks |-> <<>>]
    IN
    IF st.contstr # "none" THEN
        IF ln = <<>> THEN raise
        ELSE LET end == IF st.contstr = "single" THEN EndSingle(ln, 0)
                        ELSE EndTriple(ln, 0)
             IN
             IF end # -1 THEN
                 TokenizeLines(ls, lnum + 1,
                     ScanLine(ln, lnum, end,
                         [Yield(st, TokenInfo("STRING", st.strstart,
                                              At(lnum, end),
                                              st.contline \o ln))
                            EXCEPT !.contstr = "none", !.contline = <<>>]))
             ELSE IF st.contstr = "single" /\ ~EndsInBackslashNewline(ln) THEN
                 TokenizeLines(ls, lnum + 1,
                     [Yield(st, TokenInfo("ERRORTOKEN", st.strstart,
                                          At(lnum, Len(ln)), st.contline))
                        EXCEPT !.contstr = "none", !.contline = <<>>])
             ELSE
                 TokenizeLines(ls, lnum + 1,
                     [st EXCEPT !.contline = @ \o ln])
    ELSE IF ~st.continued THEN
        IF ln = <<>> THEN [raised |-> FALSE, toks |-> st.toks \o EndTokens(ls)]
        ELSE IF ln[1] = "#" THEN
            TokenizeLines(ls, lnum + 1,
                Yield(Yield(st, TokenInfo("COMMENT", At(lnum, 0),
                                          At(lnum, CommentEnd(ln)), ln)),
                      TokenInfo("NL", At(lnum, CommentEnd(ln)),
                                At(lnum, Len(ln)), ln)))
        ELSE IF ln[1] = "\n" THEN
            TokenizeLines(ls, lnum + 1,
                Yield(st, TokenInfo("NL", At(lnum, 0), At(lnum, Len(ln)), ln)))
        ELSE TokenizeLines(ls, lnum + 1, ScanLine(ln, lnum, 0, st))
    ELSE
        IF ln = <<>> THEN raise
        ELSE TokenizeLines(ls, lnum + 1,
                 ScanLine(ln, lnum, 0, [st EXCEPT !.continued = FALSE]))

\* list(tokenize.generate_tokens(stream.readline)) for the text s.
StreamTokens(s) == TokenizeLines(ReadLines(s, 1), 1, NoTokens)

\* str.rstrip("\r\n")
RECURSIVE RStripNewlines(_)
RStripNewlines(s) ==
    IF s # <<>> /\ s[Len(s)] \in {"\r", "\n"}
    THEN RStripNewlines(SubSeq(s, 1, Len(s) - 1)) ELSE s

\* The first loop: one region per STRING token that ends on another line
\* than it starts on, with the token's start and end.
MultilineStrings(toks) ==
    LET spans(token) ==
            /\ token.start.line # token.end.line
            /\ token.exact_type = "STRING"
        kept == SelectSeq(toks, spans)
    IN  [i \in 1..Len(kept) |->
            [start |-> kept[i].start, end |-> kept[i].end]]

\* The second loop: one region per token whose line attribute ends in a
\* backslash and is the line attribute of no COMMENT token; the region covers
\* the token's end line from column 0 to the length of the line attribute.
ExplicitlyContinued(toks) ==
    LET comments == {toks[i].line : i \in
                        {j \in 1..Len(toks) : toks[j].exact_type = "COMMENT"}}
        continues(token) ==
            /\ RStripNewlines(token.line) # <<>>
            /\ RStripNewlines(token.line)[Len(RStripNewlines(token.line))]
                   = "\\"
            /\ token.line \notin comments
        kept == SelectSeq(toks, continues)
    IN  [i \in 1..Len(kept) |->
            [start |-> At(kept[i].end.line, 0),
             end |-> At(kept[i].end.line, Len(kept[i].line))]]

\* find_unsilenceable_regions(stream) for a text that tokenizes.
find_unsilenceable_regions(s) ==
    MultilineStrings(StreamTokens(s).toks)
        \o ExplicitlyContinued(StreamTokens(s).toks)

\* all_lines = list(tokenize.generate_tokens(stream.readline))
TokenizeStream ==
    /\ findPc = "call"
    /\ ~StreamTokens(stream).raised
    /\ all_lines' = StreamTokens(stream).toks
    /\ findPc' = "tokens"
    /\ UNCHANGED <<stream, unsilenceable_regions>>
    /\ UNCHANGED <<resolverVars, editorVars, splitterVars, mutatorVars>>

\* The tokenizer raises tokenize.TokenError and the call ends with it.
TokenizeRaises ==
    /\ findPc = "call"
    /\ StreamTokens(stream).raised
    /\ findPc' = "raised"
    /\ UNCHANGED <<stream, all_lines, unsilenceable_regions>>
    /\ UNCHANGED <<resolverVars, editorVars, splitterVars, mutatorVars>>

\* The loop over the tokens that appends the multi-line strings.
AppendMultilineStrings ==
    /\ findPc = "tokens"
    /\ unsilenceable_regions' = MultilineStrings(all_lines)
    /\ findPc' = "strings"
    /\ UNCHANGED <<stream, all_lines>>
    /\ UNCHANGED <<resolverVars, editorVars, splitterVars, mutatorVars>>

\* The loop over the tokens that appends the explicitly continued lines, and
\* the return.
AppendExplicitlyContinued ==
    /\ findPc = "strings"
    /\ unsilenceable_regions' =
           unsilenceable_regions \o ExplicitlyContinued(all_lines)
    /\ findPc' = "done"
    /\ UNCHANGED <<stream, all_lines>>
    /\ UNCHANGED <<resolverVars, editorVars, splitterVars, mutatorVars>>

(***************************************************************************)
(*                Properties of find_unsilenceable_regions                 *)
(***************************************************************************)
\* The lines of the text from which the token, a string literal, is continued
\* onto the next physical line by a backslash inside the literal: the lines
\* of a STRING token before its last that end in a backslash.
BackslashContinuedLines(token, text) ==
    IF token.exact_type # "STRING" THEN {}
    ELSE {l \in token.start.line..(token.end.line - 1) :
             EndsInBackslashNewline(ReadLines(text, 1)[l])}

\* The region is the span of a STRING token that ends on another line than
\* it starts on.
IsMultilineStringSpan(region, toks) ==
    /\ region.start.line # region.end.line
    /\ \E i \in 1..Len(toks) :
          /\ toks[i].exact_type = "STRING"
          /\ toks[i].start = region.start
          /\ toks[i].end = region.end

\* C12: where a string literal is continued onto the next physical line by a
\* backslash inside the literal, every region find_unsilenceable_regions
\* returns for the line that ends in that backslash is the span of a
\* multi-line STRING token; none is the single-line region of an explicitly
\* continued line.
C12_OnlyStringRegionsForContinuedString ==
    findPc = "done" =>
        \A i \in 1..Len(all_lines) :
            \A l \in BackslashContinuedLines(all_lines[i], stream) :
                \A r \in 1..Len(unsilenceable_regions) :
                    (l \in unsilenceable_regions[r].start.line
                               ..unsilenceable_regions[r].end.line)
                    => IsMultilineStringSpan(unsilenceable_regions[r],
                                             all_lines)

(***************************************************************************)
(*                   __main__.py: main and silence_errors                  *)
(***************************************************************************)
\* The lines of the module's file before the run.
Line_existing_note ==
    <<"x", " ", "=", " ", "1", " ", " ", "#", " ", "e", "x", "i", "s", "t",
      "i", "n", "g", " ", "n", "o", "t", "e", "\n">>
Line_type_ignore ==
    <<"y", " ", "=", " ", "f", "(", ")", " ", " ", "#", " ", "t", "y", "p",
      "e", ":", " ", "i", "g", "n", "o", "r", "e", "[", "a", "r", "g", "-",
      "t", "y", "p", "e", "]", "\n">>
Line_plain ==
    <<"z", " ", "=", " ", "2", "\n">>

InitialFile == <<Line_existing_note, Line_type_ignore, Line_plain>>

\* The module, error codes and description of the reported errors.
S_module ==
    <<"m", ".", "p", "y">>
S_description ==
    <<"m", "s", "g">>
S_description_note ==
    <<"n", "o", "t", "e">>

ReportedCodes == {S_arg_type, S_return_value}

Descriptions == {S_description, S_description_note}

\* The line silence_errors writes in place of a line:
\*   comment = f"# type: ignore[{error_code}]  # {description}"
\*   lines[line_no - 1] = f"{line}  {comment}\n"
SilencedLine(old, error_code, description) ==
    RemoveSuffix(old, <<"\n">>) \o <<" ", " ">>
        \o <<"#", " ">> \o S_type_ignore \o <<"[">> \o error_code
        \o <<"]", " ", " ", "#", " ">> \o description \o <<"\n">>

\* One turn of main's loop over the errors of the report: silence_errors
\* reads the file, rewrites the line and writes the file back; main notes
\* the module.
silence_errors ==
    /\ silenced < MaxErrors
    /\ lines # <<>>
    /\ \E line_no \in 1..Len(lines), error_code \in ReportedCodes,
          description \in Descriptions :
          /\ lines' = [lines EXCEPT ![line_no] =
                           SilencedLine(@, error_code, description)]
          /\ reported' = [reported EXCEPT ![line_no] = @ \cup {error_code}]
    /\ modules' = IF S_module \in Range(modules) THEN modules
                  ELSE Append(modules, S_module)
    /\ silenced' = silenced + 1
    /\ UNCHANGED <<resolverVars, editorVars, splitterVars, finderVars>>

(***************************************************************************)
(*                     Properties of the file mutator                      *)
(***************************************************************************)
\* The number of occurrences of lit in s.
RECURSIVE Occurrences(_, _, _)
Occurrences(s, i, lit) ==
    IF i > Len(s) THEN 0
    ELSE IF StartsWithAt(s, i, lit) THEN 1 + Occurrences(s, i + Len(lit), lit)
    ELSE Occurrences(s, i + 1, lit)

\* C4: after any sequence of reported errors every line carries at most one
\* type: ignore[...] annotation, and on a line errors were reported on, its
\* codes are those the line had before together with those of the errors.
C4_OneMergedAnnotationPerLine ==
    \A l \in 1..Len(lines) :
        /\ Occurrences(lines[l], 1, S_type_ignore \o <<"[">>) <= 1
        /\ reported[l] # {} =>
              Range(AnnotationCodes(lines[l]))
                  = Range(AnnotationCodes(InitialFile[l])) \cup reported[l]

\* The line has a trailing comment and no suppression annotation.
HasPlainComment(s) ==
    /\ split_code_and_comment(s)[2] # <<>>
    /\ Search("type_ignore_re", s) = 0

\* C5: silencing one error on a line with a plain trailing comment puts the
\* annotation directly after the code and keeps the whole original comment
\* after it, two blanks and the comment's own marker between them.
C5_AnnotationBeforeExistingComment ==
    \A l \in 1..Len(lines) :
        (silenced = 1 /\ reported[l] # {} /\ HasPlainComment(InitialFile[l]))
        => \A error_code \in reported[l] :
              lines[l] =
                  split_code_and_comment(InitialFile[l])[1]
                      \o <<" ", " ", "#", " ">> \o S_type_ignore \o <<"[">>
                      \o error_code \o <<"]", " ", " ">>
                      \o split_code_and_comment(InitialFile[l])[2]

(***************************************************************************)
(*                             Specifications                              *)
(***************************************************************************)
IdleResolver ==
    /\ regions = <<>>
    /\ error = [line_no |-> 1, col_offset |-> None]
    /\ cur = [line_no |-> 1, col_offset |-> None]
    /\ depth = 0
    /\ pc = "idle"
    /\ result = None

IdleEditor ==
    /\ comment = <<>>
    /\ error_codes = <<>>
    /\ op = "idle"
    /\ prevOp = "idle"
    /\ before = <<>>
    /\ arg = <<>>
    /\ nops = 0

IdleSplitter ==
    /\ line = <<>>
    /\ splitPc = "idle"
    /\ python_code = <<>>
    /\ python_comment = <<>>

IdleMutator ==
    /\ lines = <<>>
    /\ modules = <<>>
    /\ silenced = 0
    /\ reported = <<>>

IdleFinder ==
    /\ stream = <<>>
    /\ findPc = "idle"
    /\ all_lines = <<>>
    /\ unsilenceable_regions = <<>>

InitResolver ==
    /\ regions \in RegionLists
    /\ error \in MypyError
    /\ cur = error
    /\ depth = 0
    /\ pc = "call"
    /\ result = None
    /\ IdleEditor /\ IdleSplitter /\ IdleMutator /\ IdleFinder

NextResolver == Return \/ Recurse

SpecResolver == InitResolver /\ [][NextResolver]_vars

InitEditor ==
    /\ comment \in Comments
    /\ error_codes = <<>>
    /\ op = "none"
    /\ prevOp = "none"
    /\ before = <<>>
    /\ arg = <<>>
    /\ nops = 0
    /\ IdleResolver /\ IdleSplitter /\ IdleMutator /\ IdleFinder

NextEditor == Add \/ Format \/ Remove

SpecEditor == InitEditor /\ [][NextEditor]_vars

InitSplitter ==
    /\ line \in SourceLines
    /\ splitPc = "call"
    /\ python_code = <<>>
    /\ python_comment = <<>>
    /\ IdleResolver /\ IdleEditor /\ IdleMutator /\ IdleFinder

NextSplitter == SplitNoComment \/ SplitAtComment \/ SplitFallback

SpecSplitter == InitSplitter /\ [][NextSplitter]_vars

InitMutator ==
    /\ lines = InitialFile
    /\ modules = <<>>
    /\ silenced = 0
    /\ reported = [l \in 1..Len(InitialFile) |-> {}]
    /\ IdleResolver /\ IdleEditor /\ IdleSplitter /\ IdleFinder

NextMutator == silence_errors

SpecMutator == InitMutator /\ [][NextMutator]_vars

InitFinder ==
    /\ stream \in Streams
    /\ findPc = "call"
    /\ all_lines = <<>>
    /\ unsilenceable_regions = <<>>
    /\ IdleResolver /\ IdleEditor /\ IdleSplitter /\ IdleMutator

NextFinder ==
    \/ TokenizeStream
    \/ TokenizeRaises
    \/ AppendMultilineStrings
    \/ AppendExplicitlyContinued

SpecFinder == InitFinder /\ [][NextFinder]_vars

\* The five components side by side.
Init == InitResolver \/ InitEditor \/ InitSplitter \/ InitMutator
            \/ InitFinder

Next == NextResolver \/ NextEditor \/ NextSplitter \/ NextMutator
            \/ NextFinder

Spec == Init /\ [][Next]_vars

=============================================================================
